---- MODULE Spec2Model ----
(***************************************************************************)
(* Model of the Smart-Study chart layer (visualizer.py, class Visualizer)  *)
(* and of the session entry form (gui_components.py, StudyInputForm).      *)
(*                                                                         *)
(* Python strings are sequences of one-character strings, so that parsing, *)
(* formatting, stripping and string comparison are computed, not assumed.  *)
(* A Python dict is a sequence of <<key, value>> pairs with distinct keys, *)
(* in insertion order.                                                     *)
(***************************************************************************)
EXTENDS Integers, Sequences, FiniteSets, TLC

(* ------------------------------ bounds --------------------------------- *)

MaxSessions == 2   \* longest sessions list passed to a chart function
MaxSubjects == 2   \* most entries of a subject_time mapping
MaxText == 2       \* longest text typed into a form field
ScaleRes == 2      \* slider positions per unit of the 1..5 scale

(* ------------------------- characters and strings ---------------------- *)

Digits == <<"0", "1", "2", "3", "4", "5", "6", "7", "8", "9">>

IsDigit(c) == \E k \in 1..10 : Digits[k] = c

DigitVal(c) == (CHOOSE k \in 1..10 : Digits[k] = c) - 1

\* Code point of the characters a formatted day label can contain.
Ord(c) == IF c = "/" THEN 47 ELSE 48 + DigitVal(c)

IsSpace(c) == c \in {" ", "\n", "\t"}

\* s[i], or the empty string past the end of s
At(s, i) == IF i >= 1 /\ i <= Len(s) THEN s[i] ELSE ""

\* Python's str < str: the first differing code point decides, a proper
\* prefix is smaller.
RECURSIVE StrLess(_, _)
StrLess(a, b) ==
    IF b = <<>> THEN FALSE
    ELSE IF a = <<>> THEN TRUE
    ELSE IF Ord(Head(a)) # Ord(Head(b)) THEN Ord(Head(a)) < Ord(Head(b))
    ELSE StrLess(Tail(a), Tail(b))

RECURSIVE LStrip(_)
LStrip(s) == IF s # <<>> /\ IsSpace(Head(s)) THEN LStrip(Tail(s)) ELSE s

RECURSIVE RStrip(_)
RStrip(s) ==
    IF s # <<>> /\ IsSpace(s[Len(s)]) THEN RStrip(SubSeq(s, 1, Len(s) - 1))
    ELSE s

\* str.strip()
Strip(s) == RStrip(LStrip(s))

(* ------------------- datetime.strptime / date.strftime ----------------- *)

\* Number of consecutive digits of s starting at position i.
RECURSIVE RunLen(_, _)
RunLen(s, i) == IF IsDigit(At(s, i)) THEN 1 + RunLen(s, i + 1) ELSE 0

\* Number of consecutive whitespace characters of s starting at position i.
RECURSIVE SpaceLen(_, _)
SpaceLen(s, i) == IF IsSpace(At(s, i)) THEN 1 + SpaceLen(s, i + 1) ELSE 0

\* Decimal value of the n digits of s starting at position i.
RECURSIVE NumAt(_, _, _)
NumAt(s, i, n) ==
    IF n = 0 THEN 0
    ELSE 10 * NumAt(s, i, n - 1) + DigitVal(s[i + n - 1])

IsLeap(y) == (y % 4 = 0 /\ y % 100 # 0) \/ y % 400 = 0

DaysInMonth(y, m) ==
    IF m = 2 THEN (IF IsLeap(y) THEN 29 ELSE 28)
    ELSE IF m \in {4, 6, 9, 11} THEN 30 ELSE 31

ValueError == [ok |-> FALSE]

\* A one- or two-digit field at position i whose value lies in lo..hi and
\* which is followed by the character sep; the result is the field's value
\* and the position after sep, or ValueError.
Field(s, i, lo, hi, sep) ==
    LET n == RunLen(s, i)
        v == NumAt(s, i, n)
    IN IF n \in {1, 2} /\ v >= lo /\ v <= hi /\ At(s, i + n) = sep
       THEN [ok |-> TRUE, val |-> v, next |-> i + n + 1]
       ELSE ValueError

\* The day field also accepts a blank followed by one digit 1..9.
DayField(s, i) ==
    IF At(s, i) = " "
    THEN IF RunLen(s, i + 1) = 1 /\ DigitVal(s[i + 1]) >= 1
            /\ IsSpace(At(s, i + 2))
         THEN [ok |-> TRUE, val |-> DigitVal(s[i + 1]), next |-> i + 2]
         ELSE ValueError
    ELSE LET n == RunLen(s, i)
             v == NumAt(s, i, n)
         IN IF n \in {1, 2} /\ v >= 1 /\ v <= 31 /\ IsSpace(At(s, i + n))
            THEN [ok |-> TRUE, val |-> v, next |-> i + n]
            ELSE ValueError

\* datetime.strptime(ts, "%Y-%m-%d %H:%M:%S").date(): the calendar date, or
\* ValueError when ts does not match the format or names no real date.
StrpDate(ts) ==
    IF ~(RunLen(ts, 1) = 4 /\ At(ts, 5) = "-" /\ NumAt(ts, 1, 4) >= 1)
    THEN ValueError
    ELSE
    LET y == NumAt(ts, 1, 4)
        fm == Field(ts, 6, 1, 12, "-")
    IN IF ~fm.ok THEN ValueError ELSE
    LET fd == DayField(ts, fm.next)
    IN IF ~fd.ok THEN ValueError ELSE
    LET h == fd.next + SpaceLen(ts, fd.next)
        fH == Field(ts, h, 0, 23, ":")
    IN IF ~fH.ok THEN ValueError ELSE
    LET fM == Field(ts, fH.next, 0, 59, ":")
    IN IF ~fM.ok THEN ValueError ELSE
    LET fS == Field(ts, fM.next, 0, 59, "")
    IN IF ~fS.ok THEN ValueError
       ELSE IF fd.val > DaysInMonth(y, fm.val) THEN ValueError
       ELSE [ok |-> TRUE, year |-> y, month |-> fm.val, day |-> fd.val]

TwoDigits(n) == <<Digits[(n \div 10) + 1], Digits[(n % 10) + 1]>>

\* date.strftime("%m/%d")
StrfMonthDay(date) == TwoDigits(date.month) \o <<"/">> \o TwoDigits(date.day)

(* ------------------------------ dict and list -------------------------- *)

Keys(d) == [i \in 1..Len(d) |-> d[i][1]]

Values(d) == [i \in 1..Len(d) |-> d[i][2]]

HasKey(d, k) == \E i \in 1..Len(d) : d[i][1] = k

\* d.get(k, default)
DictGet(d, k, default) ==
    IF HasKey(d, k) THEN d[CHOOSE i \in 1..Len(d) : d[i][1] = k][2]
    ELSE default

\* d[k] = v: an existing key keeps its position, a new key goes last
DictSet(d, k, v) ==
    IF HasKey(d, k)
    THEN [i \in 1..Len(d) |-> IF d[i][1] = k THEN <<k, v>> ELSE d[i]]
    ELSE Append(d, <<k, v>>)

RECURSIVE Sum(_)
Sum(xs) == IF xs = <<>> THEN 0 ELSE Head(xs) + Sum(Tail(xs))

\* x placed into the ascending list xs, after the elements not above it
RECURSIVE InsertStr(_, _)
InsertStr(x, xs) ==
    IF xs = <<>> THEN <<x>>
    ELSE IF StrLess(x, Head(xs)) THEN <<x>> \o xs
    ELSE <<Head(xs)>> \o InsertStr(x, Tail(xs))

\* sorted(strings)
RECURSIVE SortedStr(_)
SortedStr(xs) ==
    IF xs = <<>> THEN <<>>
    ELSE InsertStr(xs[Len(xs)], SortedStr(SubSeq(xs, 1, Len(xs) - 1)))

\* Variant of InsertByTimeDesc that puts an item before the items of equal
\* time, as reversing an ascending sort would.
RECURSIVE InsertByTimeDesc_TiesReversed(_, _)
InsertByTimeDesc_TiesReversed(item, xs) ==
    IF xs = <<>> THEN <<item>>
    ELSE IF item[2] >= Head(xs)[2] THEN <<item>> \o xs
    ELSE <<Head(xs)>> \o InsertByTimeDesc_TiesReversed(item, Tail(xs))

\* item placed into the list xs, which is descending by time, after the
\* items whose time is not below its own (the sort is stable)
RECURSIVE InsertByTimeDesc(_, _)
InsertByTimeDesc(item, xs) ==
    IF xs = <<>> THEN <<item>>
    ELSE IF item[2] > Head(xs)[2] THEN <<item>> \o xs
    ELSE <<Head(xs)>> \o InsertByTimeDesc(item, Tail(xs))

\* sorted(subject_time.items(), key=lambda x: x[1], reverse=True)
RECURSIVE SortedByTimeDesc(_)
SortedByTimeDesc(items) ==
    IF items = <<>> THEN <<>>
    ELSE InsertByTimeDesc(items[Len(items)],
                          SortedByTimeDesc(SubSeq(items, 1, Len(items) - 1)))

(* ------------------------------- inputs -------------------------------- *)

\* "2024-12-31 09:00:00"
TsDec31Morning ==
    <<"2","0","2","4","-","1","2","-","3","1"," ",
      "0","9",":","0","0",":","0","0">>

\* "2024-12-31 18:30:00", the same day as TsDec31Morning
TsDec31Evening ==
    <<"2","0","2","4","-","1","2","-","3","1"," ",
      "1","8",":","3","0",":","0","0">>

\* "2025-01-01 08:00:00", the day after
TsJan01 ==
    <<"2","0","2","5","-","0","1","-","0","1"," ",
      "0","8",":","0","0",":","0","0">>

\* "2025-1-1 20:15:00", the same day as TsJan01 without zero padding
TsJan01Short ==
    <<"2","0","2","5","-","1","-","1"," ",
      "2","0",":","1","5",":","0","0">>

\* "2025-12-31 09:00:00", one year after TsDec31Morning
TsDec31NextYear ==
    <<"2","0","2","5","-","1","2","-","3","1"," ",
      "0","9",":","0","0",":","0","0">>

\* "2025-02-30 10:00:00", well-formed but not a calendar date
TsFeb30 ==
    <<"2","0","2","5","-","0","2","-","3","0"," ",
      "1","0",":","0","0",":","0","0">>

\* "bad-date"
TsBadDate == <<"b","a","d","-","d","a","t","e">>

Timestamps ==
    {TsDec31Morning, TsDec31Evening, TsJan01, TsJan01Short, TsDec31NextYear,
     TsFeb30, TsBadDate}

Durations == {20, 30}

Productivities == {2, 5}

Subjects == {"Math", "History", "Art"}

Times == {30, 50}

SessionSet ==
    [timestamp : Timestamps, duration : Durations,
     productivity : Productivities]

SeqsUpTo(S, n) == UNION {[1..k -> S] : k \in 0..n}

SessionLists == SeqsUpTo(SessionSet, MaxSessions)

SubjectTimes ==
    {d \in SeqsUpTo(Subjects \X Times, MaxSubjects) :
        \A i, j \in 1..Len(d) : d[i][1] = d[j][1] => i = j}

(* ------------------------------- state --------------------------------- *)

VARIABLES
    op,                 \* the Visualizer function called last, or "none"
    subject_time,       \* its subject_time argument (a dict)
    sessions,           \* its sessions argument (a list of session dicts)
    parent_window,      \* the canvases packed into its parent_window argument
    raised,             \* the exception that escaped from it, or "none"
    subject_entry,      \* StudyInputForm: text of the subject entry
    duration_entry,     \* StudyInputForm: text of the duration entry
    productivity_var,   \* StudyInputForm: value of the IntVar, in 1/ScaleRes
    productivity_label, \* StudyInputForm: text of the productivity label
    notes_text,         \* StudyInputForm: text typed into the notes widget
    form_op             \* the StudyInputForm operation performed last

vizVars == <<op, subject_time, sessions, parent_window, raised>>

formVars ==
    <<subject_entry, duration_entry, productivity_var, productivity_label,
      notes_text, form_op>>

vars == <<vizVars, formVars>>

(* ------------------------------ Visualizer ----------------------------- *)

NoLine == <<>>

\* The figure drawn on a canvas: the kind of chart, the plotted x values (or
\* labels) and y values, and the horizontal reference line, if any.
Figure(kind, xs, ys, hline) ==
    [kind |-> kind, x |-> xs, y |-> ys, hline |-> hline]

\* FigureCanvasTkAgg(fig, parent_window) ... pack(): the canvas is added to
\* the window's children.
Pack(window, fig) == Append(window, fig)

\* Variant of GroupStep without the except clause: the ValueError escapes.
GroupStep_NoExcept(acc, session) ==
    LET date == StrpDate(session.timestamp)
    IN IF ~date.ok
       THEN [daily_time |-> acc.daily_time, raised |-> "ValueError"]
       ELSE LET date_str == StrfMonthDay(date)
            IN [daily_time |->
                    DictSet(acc.daily_time, date_str,
                            DictGet(acc.daily_time, date_str, 0)
                                + session.duration),
                raised |-> "none"]

\* Variant of GroupStep that stores the session's duration instead of adding
\* it to the day's total.
GroupStep_Overwrite(acc, session) ==
    LET date == StrpDate(session.timestamp)
    IN IF ~date.ok
       THEN acc
       ELSE [daily_time |->
                 DictSet(acc.daily_time, StrfMonthDay(date), session.duration),
             raised |-> "none"]

\* One iteration of the grouping loop: parse the timestamp, format the day
\* label, add the duration to the label's total; a ValueError is caught and
\* the session skipped.
GroupStep(acc, session) ==
    LET date == StrpDate(session.timestamp)
    IN IF ~date.ok
       THEN acc
       ELSE LET date_str == StrfMonthDay(date)
            IN [daily_time |->
                    DictSet(acc.daily_time, date_str,
                            DictGet(acc.daily_time, date_str, 0)
                                + session.duration),
                raised |-> "none"]

\* The loop over sessions; it stops at the first exception that escapes.
RECURSIVE GroupByDate(_, _)
GroupByDate(acc, ss) ==
    IF ss = <<>> \/ acc.raised # "none" THEN acc
    ELSE GroupByDate(GroupStep(acc, Head(ss)), Tail(ss))

\* daily_time after the loop, with the exception that ended it, if any
DailyTime(ss) == GroupByDate([daily_time |-> <<>>, raised |-> "none"], ss)

\* dates = sorted(daily_time.keys())
SortedDates(daily_time) == SortedStr(Keys(daily_time))

\* times = [daily_time[d] for d in dates]
TimesOf(daily_time, dates) ==
    [i \in 1..Len(dates) |-> DictGet(daily_time, dates[i], 0)]

\* Variant of Average with floor division.
Average_FloorDiv(scores) == [num |-> Sum(scores) \div Len(scores), den |-> 1]

\* sum(productivity_scores) / len(productivity_scores), as the exact
\* quotient num/den; the caller has ruled out the empty list
Average(scores) == [num |-> Sum(scores), den |-> Len(scores)]

\* productivity_scores = [s['productivity'] for s in sessions]
ProductivityScores(ss) == [i \in 1..Len(ss) |-> ss[i].productivity]

\* session_numbers = list(range(1, len(sessions) + 1))
SessionNumbers(ss) == [i \in 1..Len(ss) |-> i]

CreatePieChart ==
    /\ op = "none"
    /\ \E st \in SubjectTimes :
        /\ op' = "create_pie_chart"
        /\ subject_time' = st
        /\ sessions' = <<>>
        /\ raised' = "none"
        /\ parent_window' =
               IF st = <<>> THEN <<>>
               ELSE Pack(<<>>, Figure("pie", Keys(st), Values(st), NoLine))
        /\ UNCHANGED formVars

CreateBarChart ==
    /\ op = "none"
    /\ \E st \in SubjectTimes :
        /\ op' = "create_bar_chart"
        /\ subject_time' = st
        /\ sessions' = <<>>
        /\ raised' = "none"
        /\ parent_window' =
               IF st = <<>> THEN <<>>
               ELSE LET sorted_subjects == SortedByTimeDesc(st)
                    IN Pack(<<>>, Figure("bar", Keys(sorted_subjects),
                                         Values(sorted_subjects), NoLine))
        /\ UNCHANGED formVars

CreateProductivityChart ==
    /\ op = "none"
    /\ \E ss \in SessionLists :
        /\ op' = "create_productivity_chart"
        /\ subject_time' = <<>>
        /\ sessions' = ss
        /\ raised' = "none"
        /\ parent_window' =
               IF ss = <<>> THEN <<>>
               ELSE LET productivity_scores == ProductivityScores(ss)
                    IN Pack(<<>>, Figure("line", SessionNumbers(ss),
                                         productivity_scores,
                                         Average(productivity_scores)))
        /\ UNCHANGED formVars

CreateDailyStudyChart ==
    /\ op = "none"
    /\ \E ss \in SessionLists :
        /\ op' = "create_daily_study_chart"
        /\ subject_time' = <<>>
        /\ sessions' = ss
        /\ IF ss = <<>>
           THEN raised' = "none" /\ parent_window' = <<>>
           ELSE LET grouped == DailyTime(ss)
                    dates == SortedDates(grouped.daily_time)
                    times == TimesOf(grouped.daily_time, dates)
                IN /\ raised' = grouped.raised
                   /\ parent_window' =
                          IF grouped.raised # "none" THEN <<>>
                          ELSE Pack(<<>>, Figure("daily", dates, times, NoLine))
        /\ UNCHANGED formVars

(* ---------------------------- StudyInputForm --------------------------- *)

ScaleFrom == 1

ScaleTo == 5

EntryChars == {"a", " "}

NotesChars == {"a", " ", "\n"}

EntryTexts == SeqsUpTo(EntryChars, MaxText)

NotesTexts == SeqsUpTo(NotesChars, MaxText)

\* MessageGenerator.get_productivity_label: each level has a fixed label,
\* ascending from poor; the label of level 3 is the form's initial text.
GetProductivityLabel(level) ==
    CASE level = 1 -> "1 - Poor"
      [] level = 2 -> "2 - Fair"
      [] level = 3 -> "3 - Good"
      [] level = 4 -> "4 - Very Good"
      [] level = 5 -> "5 - Excellent"
      [] OTHER -> "3 - Good"

\* The integer n as a value of the variable, which the scale sets in steps
\* of 1/ScaleRes.
IntValue(n) == n * ScaleRes

\* IntVar.get(): the stored number, truncated to an integer
IntVarGet(v) == v \div ScaleRes

\* int(float(value))
IntOfFloat(v) == v \div ScaleRes

\* Variant of UpdateProductivityLabel that rounds to the nearest level.
UpdateProductivityLabel_Rounds(value) ==
    GetProductivityLabel((2 * value + ScaleRes) \div (2 * ScaleRes))

\* _update_productivity_label(value): the label's new text
UpdateProductivityLabel(value) == GetProductivityLabel(IntOfFloat(value))

\* ScrolledText.get("1.0", tk.END): the text and the widget's final newline
NotesGet(text) == text \o <<"\n">>

GetValues ==
    [subject |-> Strip(subject_entry),
     duration |-> Strip(duration_entry),
     productivity |-> IntVarGet(productivity_var),
     notes |-> Strip(NotesGet(notes_text))]

\* The user edits the subject entry.
EditSubject ==
    \E t \in EntryTexts :
        /\ subject_entry' = t
        /\ form_op' = "edit"
        /\ UNCHANGED <<duration_entry, productivity_var, productivity_label,
                       notes_text>>
        /\ UNCHANGED vizVars

\* The user edits the duration entry.
EditDuration ==
    \E t \in EntryTexts :
        /\ duration_entry' = t
        /\ form_op' = "edit"
        /\ UNCHANGED <<subject_entry, productivity_var, productivity_label,
                       notes_text>>
        /\ UNCHANGED vizVars

\* The user edits the notes.
EditNotes ==
    \E t \in NotesTexts :
        /\ notes_text' = t
        /\ form_op' = "edit"
        /\ UNCHANGED <<subject_entry, duration_entry, productivity_var,
                       productivity_label>>
        /\ UNCHANGED vizVars

\* Variant of MoveSlider for a scale that starts at 0.
MoveSlider_FromZero ==
    \E value \in 0..IntValue(ScaleTo) :
        /\ productivity_var' = value
        /\ productivity_label' = UpdateProductivityLabel(value)
        /\ form_op' = "slide"
        /\ UNCHANGED <<subject_entry, duration_entry, notes_text>>
        /\ UNCHANGED vizVars

\* The user moves the slider: the scale stores its position in the variable
\* and calls its command with it.
MoveSlider ==
    \E value \in IntValue(ScaleFrom)..IntValue(ScaleTo) :
        /\ productivity_var' = value
        /\ productivity_label' = UpdateProductivityLabel(value)
        /\ form_op' = "slide"
        /\ UNCHANGED <<subject_entry, duration_entry, notes_text>>
        /\ UNCHANGED vizVars

\* Variant of Clear that leaves the slider's variable alone.
Clear_KeepsProductivity ==
    /\ subject_entry' = <<>>
    /\ duration_entry' = <<>>
    /\ notes_text' = <<>>
    /\ productivity_label' = UpdateProductivityLabel(IntValue(3))
    /\ form_op' = "clear"
    /\ UNCHANGED productivity_var
    /\ UNCHANGED vizVars

\* StudyInputForm.clear()
Clear ==
    /\ subject_entry' = <<>>
    /\ duration_entry' = <<>>
    /\ productivity_var' = IntValue(3)
    /\ notes_text' = <<>>
    /\ productivity_label' = UpdateProductivityLabel(IntValue(3))
    /\ form_op' = "clear"
    /\ UNCHANGED vizVars

(* ---------------------------- specifications --------------------------- *)

\* No chart function has been called; the form is as _create_form built it.
Init ==
    /\ op = "none"
    /\ subject_time = <<>>
    /\ sessions = <<>>
    /\ parent_window = <<>>
    /\ raised = "none"
    /\ subject_entry = <<>>
    /\ duration_entry = <<>>
    /\ productivity_var = IntValue(3)
    /\ productivity_label = "3 - Good"
    /\ notes_text = <<>>
    /\ form_op = "init"

Next ==
    \/ CreatePieChart
    \/ CreateBarChart
    \/ CreateProductivityChart
    \/ CreateDailyStudyChart

Spec == Init /\ [][Next]_vars

FormNext ==
    \/ EditSubject
    \/ EditDuration
    \/ EditNotes
    \/ MoveSlider
    \/ Clear

FormSpec == Init /\ [][FormNext]_vars

(* ------------------------- reference definitions ----------------------- *)

Parsable(session) == StrpDate(session.timestamp).ok

DateOf(session) == StrpDate(session.timestamp)

\* The day label of a session whose timestamp parses.
LabelOf(session) == StrfMonthDay(DateOf(session))

ParsableIdx(ss) == {i \in 1..Len(ss) : Parsable(ss[i])}

Earlier(d1, d2) ==
    \/ d1.year < d2.year
    \/ d1.year = d2.year /\ d1.month < d2.month
    \/ d1.year = d2.year /\ d1.month = d2.month /\ d1.day < d2.day

SameDate(d1, d2) ==
    d1.year = d2.year /\ d1.month = d2.month /\ d1.day = d2.day

RECURSIVE SumOver(_, _)
\* The sum of f[i] over the finite set of indices I.
SumOver(f, I) ==
    IF I = {} THEN 0
    ELSE LET i == CHOOSE j \in I : TRUE IN f[i] + SumOver(f, I \ {i})

DurationOn(ss, I) == SumOver([i \in 1..Len(ss) |-> ss[i].duration], I)

\* The position of the bar labelled l in the figure fig, 0 if there is none.
BarOf(fig, l) ==
    IF \E k \in 1..Len(fig.x) : fig.x[k] = l
    THEN CHOOSE k \in 1..Len(fig.x) : fig.x[k] = l
    ELSE 0

DailyChartDrawn ==
    op = "create_daily_study_chart" /\ Len(parent_window) = 1

Permuted(ss, perm) == [i \in 1..Len(ss) |-> ss[perm[i]]]

PairSet(xs, ys) == {<<xs[k], ys[k]>> : k \in 1..Len(xs)}

(* -------------------------------- claims ------------------------------- *)

\* C1: in create_daily_study_chart two sessions with parsable timestamps are
\* summed into the same daily bucket if and only if they have the same
\* calendar date: the chart has one bar for each calendar date, and the bar
\* carrying a date's label has the total duration of the sessions of that
\* date.
C1_BucketIffSameCalendarDate ==
    DailyChartDrawn =>
        LET fig == parent_window[1]
            P == ParsableIdx(sessions)
        IN /\ Len(fig.x) = Cardinality({DateOf(sessions[i]) : i \in P})
           /\ \A i \in P :
                 LET sameDay ==
                         {j \in P : SameDate(DateOf(sessions[j]),
                                             DateOf(sessions[i]))}
                     k == BarOf(fig, LabelOf(sessions[i]))
                 IN k # 0 /\ fig.y[k] = DurationOn(sessions, sameDay)

\* C2: rendering an empty summary is a no-op: when the summary a chart
\* function would display is empty, it adds no canvas to the parent window
\* and raises no error.
C2_EmptySummaryAddsNothing ==
    /\ raised = "none"
    /\ op \in {"create_pie_chart", "create_bar_chart"} /\ subject_time = <<>>
           => parent_window = <<>>
    /\ op = "create_productivity_chart" /\ sessions = <<>>
           => parent_window = <<>>
    /\ op = "create_daily_study_chart" /\ ParsableIdx(sessions) = {}
           => parent_window = <<>>

\* C3: in create_daily_study_chart a session whose timestamp does not parse
\* is skipped and no exception escapes: the bars are exactly the day labels
\* of the parsable sessions, each with the total duration of the parsable
\* sessions carrying that label, wherever the unparsable sessions stand.
C3_UnparsableSkipped ==
    op = "create_daily_study_chart" /\ sessions # <<>> =>
        /\ raised = "none"
        /\ Len(parent_window) = 1
        /\ LET fig == parent_window[1]
               P == ParsableIdx(sessions)
           IN /\ Len(fig.x) = Len(fig.y)
              /\ {fig.x[k] : k \in 1..Len(fig.x)}
                     = {LabelOf(sessions[i]) : i \in P}
              /\ \A k, l \in 1..Len(fig.x) : fig.x[k] = fig.x[l] => k = l
              /\ \A k \in 1..Len(fig.x) :
                     fig.y[k] =
                         DurationOn(sessions,
                             {i \in P : LabelOf(sessions[i]) = fig.x[k]})

\* C3 witness: a chart drawn from a list in which an unparsable session comes
\* before a parsable one.
C3_Witness ==
    /\ DailyChartDrawn
    /\ \E i, j \in 1..Len(sessions) :
           i < j /\ ~Parsable(sessions[i]) /\ Parsable(sessions[j])
    /\ Len(parent_window[1].x) >= 1

\* C4: after clear() get_values() returns subject '', duration '',
\* productivity 3 and notes '', and the label shows the label of level 3.
C4_ClearRestoresDefaults ==
    form_op = "clear" =>
        /\ GetValues.subject = <<>>
        /\ GetValues.duration = <<>>
        /\ GetValues.productivity = 3
        /\ GetValues.notes = <<>>
        /\ productivity_label = GetProductivityLabel(3)

\* C4 witness: the form right after clear().
C4_Witness == form_op = "clear" /\ productivity_var = IntValue(3)

\* C5: in every reachable state of the form the productivity returned by
\* get_values() is one of 1, 2, 3, 4, 5.
C5_ProductivityInRange == GetValues.productivity \in 1..5

\* C5 witness: the slider has been moved to its upper end.
C5_Witness == form_op = "slide" /\ GetValues.productivity = 5

\* C6: for a non-empty sessions list the average line of
\* create_productivity_chart is the sum of the productivity fields divided by
\* the number of sessions, and the divisor is not zero.
C6_AverageIsMean ==
    op = "create_productivity_chart" /\ sessions # <<>> =>
        /\ Len(parent_window) = 1
        /\ LET avg == parent_window[1].hline
           IN /\ avg.den # 0
              /\ avg.num * Len(sessions) =
                     avg.den * SumOver([i \in 1..Len(sessions) |->
                                            sessions[i].productivity],
                                       1..Len(sessions))

\* C6 witness: a chart of two sessions whose mean is not an integer.
C6_Witness ==
    /\ op = "create_productivity_chart"
    /\ Len(sessions) >= 2
    /\ Len(parent_window) = 1
    /\ parent_window[1].hline.num % parent_window[1].hline.den # 0

\* C7: the daily totals of create_daily_study_chart do not depend on the
\* order of the input: every permutation of the sessions list gives the same
\* mapping from day to total and the same sequence of bars.
C7_OrderIndependent ==
    DailyChartDrawn =>
        LET fig == parent_window[1]
        IN \A perm \in Permutations(1..Len(sessions)) :
              LET grouped == DailyTime(Permuted(sessions, perm))
                  dates == SortedDates(grouped.daily_time)
              IN /\ grouped.raised = "none"
                 /\ PairSet(Keys(grouped.daily_time),
                            Values(grouped.daily_time))
                        = PairSet(fig.x, fig.y)
                 /\ dates = fig.x
                 /\ TimesOf(grouped.daily_time, dates) = fig.y

\* C7 witness: a chart drawn from a list that has two sessions of different
\* durations on one day.
C7_Witness ==
    /\ DailyChartDrawn
    /\ \E i, j \in ParsableIdx(sessions) :
           /\ i < j
           /\ LabelOf(sessions[i]) = LabelOf(sessions[j])
           /\ sessions[i].duration # sessions[j].duration

C9_BarsSortedStable ==
    op = "create_bar_chart" /\ subject_time # <<>> =>
        /\ Len(parent_window) = 1
        /\ LET fig == parent_window[1]
               n == Len(subject_time)
               pos(subject) ==
                   CHOOSE i \in 1..n : subject_time[i][1] = subject
           IN /\ Len(fig.x) = n /\ Len(fig.y) = n
              /\ \A i \in 1..n :
                     \E k \in 1..n :
                         fig.x[k] = subject_time[i][1]
                             /\ fig.y[k] = subject_time[i][2]
              /\ \A k, l \in 1..n :
                     k < l =>
                         /\ fig.y[k] >= fig.y[l]
                         /\ fig.y[k] = fig.y[l] => pos(fig.x[k]) < pos(fig.x[l])

\* C9 witness: a chart of a mapping with two subjects of equal time.
C9_Witness ==
    /\ op = "create_bar_chart"
    /\ Len(parent_window) = 1
    /\ \E i, j \in 1..Len(subject_time) :
           i < j /\ subject_time[i][2] = subject_time[j][2]

\* C10: the bars of create_daily_study_chart are in chronological order: the
\* bar of an earlier calendar date stands before the bar of a later one, also
\* when the timestamps span more than one year.
C10_BarsChronological ==
    DailyChartDrawn =>
        LET fig == parent_window[1]
            P == ParsableIdx(sessions)
        IN \A i, j \in P :
              Earlier(DateOf(sessions[i]), DateOf(sessions[j]))
                  /\ LabelOf(sessions[i]) # LabelOf(sessions[j])
              => BarOf(fig, LabelOf(sessions[i]))
                     < BarOf(fig, LabelOf(sessions[j]))

====
